---- MODULE Spec2Model ----
(***************************************************************************)
(* Scrapperly backend: the scraper job lifecycle (scraperJobController:    *)
(* createJob, getJobById, getJobResults, cancelJob, deleteJob and the      *)
(* background task startScraping) over the Job Store and the Result        *)
(* Store, the Site Registry's lookups and validateFields, the worker       *)
(* bridge runScraper, the multi-site handler runScrapers, and the          *)
(* frontend's HTTP client (services/api.js).                               *)
(*                                                                         *)
(* Every `await` of a handler is a point where other requests and          *)
(* background tasks run, so a handler is one action per store operation    *)
(* it awaits, together with the synchronous code that follows it.          *)
(* Document.save() is the store library's: it writes the paths modified    *)
(* on the in-memory document to the stored document with the same _id and  *)
(* fails (DocumentNotFoundError) when no such document is stored.          *)
(***************************************************************************)
EXTENDS Integers, Sequences, FiniteSets, Bags, TLC

\* ---------------------------------------------------------------- bounds
MaxJobs == 2      \* job ids ever generated
MaxReqs == 2      \* job-management requests in flight at once
MaxTime == 2      \* largest value Date.now() returns
MaxItems == 2     \* results inserted for one job
MaxLen == 3       \* length of a requested field list

Users == {"A", "B"}
JobIds == 1..MaxJobs

\* req.body of POST /jobs: site and selectedFields (searchQuery and config are
\* taken as valid and left out)
Body(site, selectedFields) == [site |-> site, selectedFields |-> selectedFields]
DefaultBody == Body("amazon", <<"title", "price">>)
NoBody == Body("none", <<>>)
Bodies ==
  { Body(s, f) : s \in {"amazon", "ebay", " amazon ", "Amazon", "walmart", ""},
                 f \in {<<>>, <<"title">>, <<"title", "price">>, <<"asin">>,
                        <<"title", "bogus">>, <<"  ">>} }

\* req.query of GET /jobs: the status and site filters ("" when absent), page
\* and limit (defaults 1 and 10)
Query(status, site, page, limit) ==
  [status |-> status, site |-> site, page |-> page, limit |-> limit]
DefaultQuery == Query("", "", 1, 10)
Queries ==
  { Query(st, s, p, l) : st \in {"", "running", "failed"}, s \in {"", "ebay"},
                         p \in 1..MaxJobs, l \in {1, 10} }

\* What one run is checked under: the deployment's MAX_CONCURRENT_SCRAPERS
\* (<<>> when unset, <<n>> when set to n) and the load put on the server: the
\* users sending requests, the jobs they create, the requests in flight at
\* once, the range of the clock, the results one job gets, the bodies of the
\* POST /jobs requests, the queries of the GET /jobs requests and the job ids
\* that requests address; and the deployment's ALLOWED_SITES (<<>> when unset,
\* <<S>> when set to the comma-separated strings S). Each scope stresses one
\* dimension.
Scope(e, us, j, r, t, n) ==
  [env |-> e, users |-> us, jobs |-> j, reqs |-> r, time |-> t, items |-> n,
   bodies |-> {DefaultBody}, queries |-> {}, ids |-> JobIds, allowed |-> <<>>]

Scopes ==
  { Scope(<<>>, {"A"}, 1, MaxReqs, MaxTime, MaxItems),  \* races on one job, default ceiling
    Scope(<<1>>, {"A"}, MaxJobs, MaxReqs, 1, 0),        \* concurrent creates at ceiling 1
    [Scope(<<1>>, Users, MaxJobs, 1, 1, 1)              \* two users' jobs side by side
       EXCEPT !.queries = {DefaultQuery}],
    [Scope(<<>>, {"A"}, MaxJobs, 1, MaxTime, 0)          \* one user's list of jobs
       EXCEPT !.bodies = {DefaultBody, Body("ebay", <<"title">>)}, !.queries = Queries,
              !.ids = {}],
    Scope(<<0>>, {"A"}, 1, 1, 1, 0),                    \* MAX_CONCURRENT_SCRAPERS=0
    [Scope(<<>>, {"A"}, 1, 1, 1, 1) EXCEPT !.bodies = Bodies],   \* any request body
    [Scope(<<>>, {"A"}, 1, 1, 1, 0)                     \* ALLOWED_SITES=amazon,walmart
       EXCEPT !.bodies = {DefaultBody, Body("walmart", <<"title">>), Body("ebay", <<"title">>)},
              !.allowed = <<{"amazon", "walmart"}>>] }

VARIABLES
  env,        \* process.env.MAX_CONCURRENT_SCRAPERS
  load,       \* the scope of this run (users, jobs, requests in flight, clock range)
  now,        \* the clock Date.now() reads
  jobs,       \* Job Store: stored ScraperJob documents by _id
  nextId,     \* the next _id ScraperJob.create generates
  results,    \* Result Store: stored ScraperResult documents
  files,      \* the result artifacts on disk, by the job they belong to
  task,       \* startScraping(job) of each created job: position and its in-memory job
  inflight,   \* bag of requests suspended at an await
  resp,       \* the HTTP response sent by the last step (NoResp when it sent none)
  vfSite,     \* validateFields: the site argument
  vfFields,   \* validateFields: the fields argument
  vfOut,      \* validateFields: what the call returned (NoOut before the call)
  sfOut,      \* getSiteFields: the response to GET /sites/{vfSite}/fields (NoSent before)
  dfOut,      \* validateFields on getDefaultFields(vfSite): what it returned (NoOut before)
  rsIn,       \* runScraper: its arguments, and what the worker will do
  rsPc,       \* runScraper: "call", "exec" (inside execSync), "exited", "done"
  rsArgv,     \* runScraper: what the shell makes of the command string
  rsOut,      \* runScraper: what the call returned or threw
  msReq,      \* runScrapers: req.body, ALLOWED_SITES and what each site's worker does
  msPc,       \* runScrapers: "call", "exec" (inside a site's execSync), "done"
  msOut,      \* runScrapers: the response sent (code 0 before)
  localStorage, \* HTTP client: the stored accessToken and refreshToken
  apiCalls,   \* HTTP client: each call of api(config): position, config, counts
  location    \* HTTP client: window.location.href

jobVars == <<env, load, now, jobs, nextId, results, files, task, inflight, resp>>
rsVars == <<rsIn, rsPc, rsArgv, rsOut>>
msVars == <<msReq, msPc, msOut>>
clVars == <<localStorage, apiCalls, location>>
vfVars == <<vfSite, vfFields, vfOut, sfOut, dfOut, rsVars, msVars, clVars>>
vars == <<jobVars, vfVars>>

\* ------------------------------------------------------------ documents
NoDoc == [user |-> "none", status |-> "none", startedAt |-> 0, completedAt |-> 0,
          error |-> FALSE, site |-> "none", selectedFields |-> <<>>, createdAt |-> 0,
          scrapedItems |-> 0, resultFile |-> FALSE]

NoResp == [op |-> "none", user |-> "none", id |-> 0, code |-> 0, doc |-> NoDoc,
           data |-> <<>>, total |-> 0, pages |-> 0]

\* runScraper before any call: no arguments, nothing executed, nothing returned
NoCall == [keyword |-> <<>>, pageCount |-> <<>>, fields |-> <<>>, exists |-> FALSE,
           exit |-> 0, stdout |-> "", stderr |-> <<>>, quotes |-> FALSE]
NoArgv == [args |-> <<>>, extra |-> FALSE, open |-> FALSE]
NoOutcome == [kind |-> "none", type |-> "", url |-> ""]

\* sfOut before getSiteFields answered: code 0; site, fields and defaultFields
\* hold <<v>> for a value v and <<>> for undefined
NoSent == [code |-> 0, site |-> <<>>, fields |-> <<>>, defaultFields |-> <<>>]

\* runScrapers before any request, and its response before it answered
NoMultiReq == [keyword |-> "", sites |-> <<>>, pageCount |-> "1", fields |-> "",
               allowed |-> <<>>, worker |-> <<>>, exported |-> FALSE]
NoMultiOut == [code |-> 0, error |-> "", ran |-> 0]

\* no multi-site request is under way
MultiIdle == msReq = NoMultiReq /\ msPc = "done" /\ msOut = NoMultiOut

\* HTTP client: the calls of api(config) one page makes at once, and the
\* HTTP requests one call may send before the model stops following it
MaxCalls == 2
MaxSends == 3
Calls == 1..MaxCalls

\* localStorage without tokens ("none" for a missing item)
NoTokens == [accessToken |-> "none", refreshToken |-> "none"]

\* a call of api(config) not made yet: pc is "idle", then "sent" (the request
\* is with the server), "refreshing" (POST /auth/refresh is with the server),
\* "resolved" or "rejected"; retry is config._retry, auth the token of
\* config.headers.Authorization, sends and refreshes count the requests and
\* the refresh calls made for it, error is what the promise was rejected with
NoApiCall == [pc |-> "idle", retry |-> FALSE, auth |-> "none", sends |-> 0,
              refreshes |-> 0, error |-> "none"]

\* the HTTP client is not in use
ClientIdle ==
  /\ localStorage = NoTokens
  /\ apiCalls = [i \in Calls |-> NoApiCall]
  /\ location = "/"

\* vfOut before validateFields was called
NoOut == [error |-> "uncalled", isValid |-> FALSE, invalidFields |-> <<>>, validFields |-> <<>>]

Active == {"pending", "running"}
Terminal == {"completed", "failed", "cancelled"}

\* const maxConcurrent = parseInt(process.env.MAX_CONCURRENT_SCRAPERS) || 3
MaxConcurrent(e) == IF e = <<>> \/ e[1] = 0 THEN 3 ELSE e[1]

\* if (runningJobs >= maxConcurrent)
AtCeilingStrict(n, e) == n > MaxConcurrent(e)
AtCeiling(n, e) == n >= MaxConcurrent(e)

\* a count without the user filter
CountAllActive(docs, u) ==
  Cardinality({i \in DOMAIN docs : docs[i].status \in Active})

\* ScraperJob.countDocuments({user, status: {$in: ['pending','running']}})
CountActive(docs, u) ==
  Cardinality({i \in DOMAIN docs : docs[i].user = u /\ docs[i].status \in Active})

\* ScraperJob.findOne({_id: id, user: u}): the document, or NoDoc for null
FindById(docs, id, u) == IF id \in DOMAIN docs THEN docs[id] ELSE NoDoc
FindOne(docs, id, u) ==
  IF id \in DOMAIN docs /\ docs[id].user = u THEN docs[id] ELSE NoDoc

\* the ScraperJob schema's default for status
DefaultStatus == "pending"

\* ScraperJob.create({user, site, searchQuery, selectedFields, config}):
\* status is not given and takes the schema default
\* and scrapedItems its default 0; createdAt is the time of the insert;
\* resultFile (TRUE when the job names a result artifact) is not set
NewJob(u, body, t) ==
  [user |-> u, status |-> DefaultStatus, startedAt |-> 0, completedAt |-> 0,
   error |-> FALSE, site |-> body.site, selectedFields |-> body.selectedFields,
   createdAt |-> t, scrapedItems |-> 0, resultFile |-> FALSE]

\* a save that writes the whole in-memory document
ReplaceDoc(stored, local, mod) == local

\* Document.save(): $set of the modified paths on the stored document
ApplySet(stored, local, mod) ==
  [f \in DOMAIN stored |-> IF f \in mod THEN local[f] ELSE stored[f]]

SaveDoc(docs, id, local, mod) ==
  IF mod = {} THEN docs ELSE [docs EXCEPT ![id] = ApplySet(docs[id], local, mod)]

\* the paths an assignment marks modified: those whose value changed
Modified(before, after) == {f \in DOMAIN before : before[f] # after[f]}

Remove(docs, id) == [i \in DOMAIN docs \ {id} |-> docs[i]]

\* ------------------------------------------------------------- requests
\* a request suspended at an await: the handler, its req.user and req.params.id,
\* the await it waits at, and the locals it still reads: runningJobs (n); the
\* job it will save and its modified paths (a handler that only reads job._id
\* from here on keeps id alone); the query's page and limit; the page found
Req(op, u, id, pc, doc, mod, n) ==
  [op |-> op, user |-> u, id |-> id, pc |-> pc, doc |-> doc, mod |-> mod, n |-> n,
   page |-> 0, limit |-> 0, data |-> <<>>, body |-> NoBody, query |-> DefaultQuery]

\* res.status(code).json({data: doc}): the job is serialised as it is at the call
Sent(op, u, id, code, doc) ==
  [op |-> op, user |-> u, id |-> id, code |-> code, doc |-> doc, data |-> <<>>, total |-> 0,
   pages |-> 0]

InFlight == BagToSet(inflight)
Suspend(r) == inflight (+) SetToBag({r})
Resume(r) == inflight (-) SetToBag({r})
Replace(r, s) == (inflight (-) SetToBag({r})) (+) SetToBag({s})
CanAccept == BagCardinality(inflight) < load.reqs

NoTask == [pc |-> "none", doc |-> NoDoc, mod |-> {}]

ResultsOf(id) == {x \in results : x.job = id}

\* req.query.page and req.query.limit of the paginated reads (limit 50 is
\* getJobResults' default)
Pages == 1..2
Limits == {1, 50}

\* the elements of the set S of integers in ascending order
RECURSIVE Ascending(_)
Ascending(S) ==
  IF S = {} THEN <<>>
  ELSE LET m == CHOOSE x \in S : \A y \in S : x <= y
       IN  <<m>> \o Ascending(S \ {m})

\* cursor.limit(limit).skip(skip) on the ordered sequence q
SkipLimit(q, skip, limit) ==
  SubSeq(q, skip + 1, IF skip + limit < Len(q) THEN skip + limit ELSE Len(q))

\* ScraperResult.find({job}).sort({'metadata.itemIndex': 1}).limit(limit * 1)
\*   .skip((page - 1) * limit): the item indices of the page
FindResults(rs, id, page, limit) ==
  SkipLimit(Ascending({x.itemIndex : x \in {y \in rs : y.job = id}}), (page - 1) * limit, limit)

\* ScraperResult.deleteMany({job}): the documents left
DeleteNone(rs, id) == rs
DeleteMany(rs, id) == {x \in rs : x.job # id}

\* ScraperResult.countDocuments({job})
CountResults(rs, id) == Cardinality({x \in rs : x.job = id})

\* ---------------------------------------------------------------- Init
Init ==
  /\ \E s \in Scopes : env = s.env /\ load = s
  /\ now = 1
  /\ jobs = <<>>
  /\ nextId = 1
  /\ results = {}
  /\ files = {}
  /\ task = [i \in JobIds |-> NoTask]
  /\ inflight = EmptyBag
  /\ resp = NoResp
  /\ vfSite = "amazon"
  /\ vfFields = <<>>
  /\ vfOut = NoOut
  /\ sfOut = NoSent
  /\ dfOut = NoOut
  /\ rsIn = NoCall /\ rsPc = "done" /\ rsArgv = NoArgv /\ rsOut = NoOutcome
  /\ MultiIdle
  /\ ClientIdle

\* time passes between two reads of Date.now()
Tick ==
  /\ now < load.time
  /\ now' = now + 1
  /\ resp' = NoResp
  /\ UNCHANGED <<env, load, jobs, nextId, results, files, task, inflight, vfVars>>

\* createJob requests in flight (each will take a fresh _id unless rejected)
Creating ==
  LET S == {x \in InFlight : x.op = "createJob"}
  IN  BagCardinality([r \in S |-> inflight[r]])

\* ------------------------------------------------------------ createJob
\* .trim() of the validation chains
Trim(str) ==
  CASE str = " amazon " -> "amazon"
    [] str = "  " -> ""
    [] OTHER -> str

\* the list isIn falls back to when ALLOWED_SITES is unset
DefaultSites ==
  {"alibaba", "flipkart", "amazon", "dhgate", "indiamart", "madeinchina", "ebay"}

\* isIn(process.env.ALLOWED_SITES?.split(',') || [...]): membership is by
\* string equality
AllowedSites == IF load.allowed = <<>> THEN DefaultSites ELSE load.allowed[1]

\* scraperJobValidation: the fields of the body that fail their chain.
\*   site: trim, notEmpty, isIn(allowed); selectedFields: isArray({min: 1});
\*   selectedFields.*: trim, notEmpty
validationErrors(body) ==
  {f \in {"site"} : Trim(body.site) = "" \/ Trim(body.site) \notin AllowedSites}
    \cup {f \in {"selectedFields"} : Len(body.selectedFields) < 1}
    \cup {f \in {"selectedFields.*"} :
            \E i \in DOMAIN body.selectedFields : Trim(body.selectedFields[i]) = ""}

\* req.body after the sanitizers of the chains ran
Sanitized(body) ==
  Body(Trim(body.site), [i \in DOMAIN body.selectedFields |-> Trim(body.selectedFields[i])])

\* the validation middleware answers 400 with the failing fields; otherwise
\* lines 185-191: the request reaches createJob and countDocuments is awaited
CreateJobCount(u, body) ==
  /\ CanAccept
  /\ nextId + Creating <= load.jobs
  /\ IF validationErrors(body) # {}
       THEN /\ resp' = Sent("createJob", u, 0, 400, NoDoc)
            /\ inflight' = inflight
       ELSE /\ resp' = NoResp
            /\ inflight' = Suspend([Req("createJob", u, 0, "counted", NoDoc, {},
                                        CountActive(jobs, u))
                                      EXCEPT !.body = Sanitized(body)])
  /\ UNCHANGED <<env, load, now, jobs, nextId, results, files, task, vfVars>>

\* lines 422-424, run synchronously inside createJob by the call startScraping(job):
\* the in-memory job after job.status = 'running'; job.startedAt = Date.now()
StartedJob(job, t) == [job EXCEPT !.status = "running", !.startedAt = t]

\* lines 193-219: runningJobs is compared with the ceiling; below it the job is
\* created, startScraping(job) runs up to its first await and 201 is sent with job
CreateJobResume(r) ==
  /\ r.op = "createJob" /\ r.pc = "counted"
  /\ inflight' = Resume(r)
  /\ \/ /\ AtCeiling(r.n, env)
        /\ resp' = Sent("createJob", r.user, 0, 429, NoDoc)
        /\ UNCHANGED <<jobs, nextId, task>>
     \/ /\ ~AtCeiling(r.n, env)
        /\ LET job == NewJob(r.user, r.body, now)
               local == StartedJob(job, now)
           IN  /\ jobs' = jobs @@ (nextId :> job)
               /\ task' = [task EXCEPT ![nextId] =
                            [pc |-> "save_running", doc |-> local, mod |-> Modified(job, local)]]
               /\ resp' = Sent("createJob", r.user, nextId, 201, local)
        /\ nextId' = nextId + 1
  /\ UNCHANGED <<env, load, now, results, files, vfVars>>

\* -------------------------------------------------------- startScraping
\* lines 435-441: the catch block's assignments on the in-memory job
FailedJob(job, t) == [job EXCEPT !.status = "failed", !.error = TRUE, !.completedAt = t]

\* line 424: await job.save() settles. Fulfilled: the try block ends (the scraper
\* integration is a TODO). Rejected (the document is gone, or the store failed):
\* the catch block marks the job failed and awaits a second save.
StartScrapingSave(id) ==
  /\ task[id].pc = "save_running"
  /\ \/ /\ id \in DOMAIN jobs
        /\ jobs' = SaveDoc(jobs, id, task[id].doc, task[id].mod)
        /\ task' = [task EXCEPT ![id] = [pc |-> "done", doc |-> @.doc, mod |-> {}]]
     \/ /\ LET local == FailedJob(task[id].doc, now)
           IN  task' = [task EXCEPT ![id] =
                          [pc |-> "save_failed", doc |-> local,
                           mod |-> @.mod \cup Modified(@.doc, local)]]
        /\ UNCHANGED jobs
  /\ resp' = NoResp
  /\ UNCHANGED <<env, load, now, nextId, results, files, inflight, vfVars>>

\* line 442: await job.save() in the catch block settles; a rejection there
\* leaves startScraping's promise rejected with nobody handling it
StartScrapingCatchSave(id) ==
  /\ task[id].pc = "save_failed"
  /\ \/ /\ id \in DOMAIN jobs
        /\ jobs' = SaveDoc(jobs, id, task[id].doc, task[id].mod)
        /\ task' = [task EXCEPT ![id] = [pc |-> "done", doc |-> @.doc, mod |-> {}]]
     \/ /\ task' = [task EXCEPT ![id] = [pc |-> "rejected", doc |-> @.doc, mod |-> @.mod]]
        /\ UNCHANGED jobs
  /\ resp' = NoResp
  /\ UNCHANGED <<env, load, now, nextId, results, files, inflight, vfVars>>

\* ----------------------------------------------------------- getJobById
\* lines 266-287
GetJobById(u, id) ==
  /\ LET job == FindOne(jobs, id, u)
     IN  resp' = IF job = NoDoc
                 THEN Sent("getJobById", u, id, 404, NoDoc)
                 ELSE Sent("getJobById", u, id, 200, job)
  /\ UNCHANGED <<env, load, now, jobs, nextId, results, files, task, inflight, vfVars>>

\* -------------------------------------------------------------- getJobs
\* lines 234-237: query = {user}, with status and site added when given
Matches(docs, u, q) ==
  {i \in DOMAIN docs : /\ docs[i].user = u
                        /\ (q.status = "" \/ docs[i].status = q.status)
                        /\ (q.site = "" \/ docs[i].site = q.site)}

\* sort({createdAt: -1}): the orders the store may return the documents S in.
\* Documents with equal createdAt come in any order.
Descending(docs, S) ==
  {q \in [1..Cardinality(S) -> S] :
     /\ \A i, j \in DOMAIN q : i # j => q[i] # q[j]
     /\ \A i, j \in DOMAIN q : i < j => docs[q[i]].createdAt >= docs[q[j]].createdAt}

\* find(query).sort({createdAt: -1}).limit(limit * 1).skip((page - 1) * limit):
\* the pages (of _ids) the store may return
FindJobs(docs, u, q) ==
  {SkipLimit(o, (q.page - 1) * q.limit, q.limit) : o \in Descending(docs, Matches(docs, u, q))}

\* ScraperJob.countDocuments(query)
CountJobs(docs, u, q) == Cardinality(Matches(docs, u, q))

\* Math.ceil(count / limit), and Math.floor in its place
Floor(count, limit) == count \div limit
Ceil(count, limit) == (count + limit - 1) \div limit

\* lines 232-242: the request arrives and find settles; countDocuments is awaited
GetJobsFind(u, q) ==
  /\ CanAccept
  /\ \E data \in FindJobs(jobs, u, q) :
       inflight' = Suspend([Req("getJobs", u, 0, "count", NoDoc, {}, 0)
                             EXCEPT !.query = q, !.data = data])
  /\ resp' = NoResp
  /\ UNCHANGED <<env, load, now, jobs, nextId, results, files, task, vfVars>>

\* lines 244-255: the count settles and the page is sent with the pagination
GetJobsCount(r) ==
  /\ r.op = "getJobs" /\ r.pc = "count"
  /\ inflight' = Resume(r)
  /\ LET count == CountJobs(jobs, r.user, r.query)
     IN  resp' = [Sent("getJobs", r.user, 0, 200, NoDoc)
                   EXCEPT !.data = r.data, !.total = count,
                          !.pages = Ceil(count, r.query.limit)]
  /\ UNCHANGED <<env, load, now, jobs, nextId, results, files, task, vfVars>>

\* -------------------------------------------------------- getJobResults
\* lines 296-313: findOne settles; 404, or the page of results is awaited
GetJobResultsFind(u, id, page, limit) ==
  /\ CanAccept
  /\ LET job == FindOne(jobs, id, u)
     IN  \/ /\ job = NoDoc
            /\ resp' = Sent("getJobResults", u, id, 404, NoDoc)
            /\ UNCHANGED inflight
         \/ /\ job # NoDoc
            /\ inflight' = Suspend([Req("getJobResults", u, id, "find", NoDoc, {}, 0)
                                      EXCEPT !.page = page, !.limit = limit])
            /\ resp' = NoResp
  /\ UNCHANGED <<env, load, now, jobs, nextId, results, files, task, vfVars>>

\* lines 310-315: the page settles and countDocuments is awaited
GetJobResultsPage(r) ==
  /\ r.op = "getJobResults" /\ r.pc = "find"
  /\ inflight' = Replace(r, [r EXCEPT !.pc = "count",
                                      !.data = FindResults(results, r.id, r.page, r.limit)])
  /\ resp' = NoResp
  /\ UNCHANGED <<env, load, now, jobs, nextId, results, files, task, vfVars>>

\* lines 315-326: the count settles and the page is sent with the total
GetJobResultsCount(r) ==
  /\ r.op = "getJobResults" /\ r.pc = "count"
  /\ inflight' = Resume(r)
  /\ resp' = [Sent("getJobResults", r.user, r.id, 200, NoDoc)
               EXCEPT !.data = r.data, !.total = CountResults(results, r.id)]
  /\ UNCHANGED <<env, load, now, jobs, nextId, results, files, task, vfVars>>

\* ------------------------------------------------------------ cancelJob
\* lines 358-359: the assignments on the in-memory job
CancelledJob(job, t) == [job EXCEPT !.status = "cancelled", !.completedAt = t]

\* line 351: the states cancelJob refuses
UncancellableCompleted(status) == status = "completed"
Uncancellable(status) == status = "completed" \/ status = "failed"

\* lines 339-360: findOne settles; 404, 400, or the job is marked and save awaited
CancelJobFind(u, id) ==
  /\ CanAccept
  /\ LET job == FindOne(jobs, id, u)
         local == CancelledJob(job, now)
     IN  \/ /\ job = NoDoc
            /\ resp' = Sent("cancelJob", u, id, 404, NoDoc)
            /\ UNCHANGED inflight
         \/ /\ job # NoDoc /\ Uncancellable(job.status)
            /\ resp' = Sent("cancelJob", u, id, 400, NoDoc)
            /\ UNCHANGED inflight
         \/ /\ job # NoDoc /\ ~Uncancellable(job.status)
            /\ inflight' = Suspend(Req("cancelJob", u, id, "save", local, Modified(job, local), 0))
            /\ resp' = NoResp
  /\ UNCHANGED <<env, load, now, jobs, nextId, results, files, task, vfVars>>

\* lines 360-370: save settles; 200 with the job, or next(error) (500)
CancelJobSave(r) ==
  /\ r.op = "cancelJob" /\ r.pc = "save"
  /\ inflight' = Resume(r)
  /\ \/ /\ r.id \in DOMAIN jobs
        /\ jobs' = SaveDoc(jobs, r.id, r.doc, r.mod)
        /\ resp' = Sent("cancelJob", r.user, r.id, 200, r.doc)
     \/ /\ resp' = Sent("cancelJob", r.user, r.id, 500, NoDoc)
        /\ UNCHANGED jobs
  /\ UNCHANGED <<env, load, now, nextId, results, files, task, vfVars>>

\* ------------------------------------------------------------ deleteJob
\* lines 380-393: findOne settles; 404, or deleteMany is awaited
DeleteJobFind(u, id) ==
  /\ CanAccept
  /\ LET job == FindOne(jobs, id, u)
     IN  \/ /\ job = NoDoc
            /\ resp' = Sent("deleteJob", u, id, 404, NoDoc)
            /\ UNCHANGED inflight
         \/ /\ job # NoDoc
            /\ inflight' = Suspend(Req("deleteJob", u, id, "deleteMany",
                                        [NoDoc EXCEPT !.resultFile = job.resultFile], {}, 0))
            /\ resp' = NoResp
  /\ UNCHANGED <<env, load, now, jobs, nextId, results, files, task, vfVars>>

\* lines 380-393 keep the job loaded by findOne; of it the handler reads
\* job._id and job.resultFile from here on.
\* lines 393-397: ScraperResult.deleteMany({job: job._id}) settles (with its
\* deletedCount in n); fs.unlink(job.resultFile) is awaited when the job names
\* a result file, job.deleteOne() otherwise
DeleteJobResults(r) ==
  /\ r.op = "deleteJob" /\ r.pc = "deleteMany"
  /\ results' = DeleteMany(results, r.id)
  /\ inflight' = Replace(r, [r EXCEPT !.pc = IF r.doc.resultFile THEN "unlink" ELSE "deleteOne",
                                      !.n = Cardinality(results) - Cardinality(results')])
  /\ resp' = NoResp
  /\ UNCHANGED <<env, load, now, jobs, nextId, files, task, vfVars>>

\* a handler in which a failed unlink reaches the outer catch: next(error)
UnlinkRethrows(ok) == IF ok THEN "deleteOne" ELSE "error"

\* lines 397-402: try { await fs.unlink(...) } catch (error) { logger.warn(...) }:
\* where the handler goes on when unlink succeeded (ok) or failed
AfterUnlink(ok) == "deleteOne"

\* lines 397-404: fs.unlink settles. Fulfilled: the file is gone. Rejected (the
\* file is missing, or the process may not remove it): the file system is as
\* it was. Either way job.deleteOne() is awaited next.
DeleteJobUnlink(r) ==
  /\ r.op = "deleteJob" /\ r.pc = "unlink"
  /\ \E ok \in BOOLEAN :
       /\ ok => r.id \in files
       /\ files' = IF ok THEN files \ {r.id} ELSE files
       /\ IF AfterUnlink(ok) = "error"
            THEN /\ inflight' = Resume(r)
                 /\ resp' = Sent("deleteJob", r.user, r.id, 500, NoDoc)
            ELSE /\ inflight' = Replace(r, [r EXCEPT !.pc = AfterUnlink(ok)])
                 /\ resp' = NoResp
  /\ UNCHANGED <<env, load, now, jobs, nextId, results, task, vfVars>>

\* lines 404-411: deleteOne settles and the success message is sent
DeleteJobDoc(r) ==
  /\ r.op = "deleteJob" /\ r.pc = "deleteOne"
  /\ jobs' = Remove(jobs, r.id)
  /\ inflight' = Resume(r)
  /\ resp' = Sent("deleteJob", r.user, r.id, 200, NoDoc)
  /\ UNCHANGED <<env, load, now, nextId, results, files, task, vfVars>>

\* --------------------------------------------------------- Result Store
\* The execution trigger's bulk insert of a running job's results, with
\* sequential item indices from 0, its update of scrapedItems, and the result
\* artifact it writes to disk and names in resultFile. startScraping stops at
\* its TODO, so this is the stores being filled from outside the handlers; it
\* does not run while a deleteJob of the same job is under way.
InsertResults(id, n) ==
  /\ n <= load.items
  /\ id \in DOMAIN jobs /\ jobs[id].status = "running"
  /\ ResultsOf(id) = {}
  /\ \A r \in InFlight : ~(r.op = "deleteJob" /\ r.id = id)
  /\ results' = results \cup {[job |-> id, itemIndex |-> k] : k \in 0..(n - 1)}
  /\ jobs' = [jobs EXCEPT ![id].scrapedItems = n, ![id].resultFile = TRUE]
  /\ files' = files \cup {id}
  /\ resp' = NoResp
  /\ UNCHANGED <<env, load, now, nextId, task, inflight, vfVars>>

\* ----------------------------------------------------------------- Next
Next ==
  \/ Tick
  \/ \E u \in load.users, body \in load.bodies : CreateJobCount(u, body)
  \/ \E r \in InFlight : CreateJobResume(r)
  \/ \E id \in JobIds : StartScrapingSave(id)
  \/ \E id \in JobIds : StartScrapingCatchSave(id)
  \/ \E u \in load.users, q \in load.queries : GetJobsFind(u, q)
  \/ \E r \in InFlight : GetJobsCount(r)
  \/ \E u \in load.users, id \in load.ids : GetJobById(u, id)
  \/ \E u \in load.users, id \in load.ids, page \in Pages, limit \in Limits :
        GetJobResultsFind(u, id, page, limit)
  \/ \E r \in InFlight : GetJobResultsPage(r)
  \/ \E r \in InFlight : GetJobResultsCount(r)
  \/ \E u \in load.users, id \in load.ids : CancelJobFind(u, id)
  \/ \E r \in InFlight : CancelJobSave(r)
  \/ \E u \in load.users, id \in load.ids : DeleteJobFind(u, id)
  \/ \E r \in InFlight : DeleteJobResults(r)
  \/ \E r \in InFlight : DeleteJobUnlink(r)
  \/ \E r \in InFlight : DeleteJobDoc(r)
  \/ \E id \in JobIds, n \in 1..MaxItems : InsertResults(id, n)

Spec == Init /\ [][Next]_vars

\* The event loop runs every settled await's continuation, and the store
\* answers every operation sent to it: no suspended handler or background
\* task waits forever.
Fairness ==
  /\ WF_vars(\E id \in JobIds : StartScrapingSave(id))
  /\ WF_vars(\E id \in JobIds : StartScrapingCatchSave(id))
  /\ WF_vars(\E r \in InFlight : CreateJobResume(r))
  /\ WF_vars(\E r \in InFlight : CancelJobSave(r))
  /\ WF_vars(\E r \in InFlight : DeleteJobResults(r))
  /\ WF_vars(\E r \in InFlight : DeleteJobUnlink(r))
  /\ WF_vars(\E r \in InFlight : DeleteJobDoc(r))
  /\ WF_vars(\E r \in InFlight : GetJobsCount(r))
  /\ WF_vars(\E r \in InFlight : GetJobResultsPage(r))
  /\ WF_vars(\E r \in InFlight : GetJobResultsCount(r))

FairSpec == Spec /\ Fairness
\* -------------------------------------------------------- Site Registry
\* scraperConfig: each site's field ids (in order) and defaultFields
SiteEntry(name, fields, defaults) ==
  [name |-> name, fields |-> fields, defaultFields |-> defaults]

scraperConfig ==
  [ madeinchina |-> SiteEntry("Made in China",
      <<"title", "exact_price", "currency", "min_order", "supplier", "origin", "feedback",
        "specifications", "images", "videos", "brand_name", "discount_information">>,
      <<"title", "exact_price", "supplier">>),
    alibaba |-> SiteEntry("Alibaba",
      <<"title", "price", "moq", "supplier", "location", "images", "rating",
        "years_in_business">>,
      <<"title", "price", "supplier">>),
    amazon |-> SiteEntry("Amazon",
      <<"title", "price", "rating", "reviews", "availability", "images", "description",
        "features", "asin">>,
      <<"title", "price", "rating">>),
    flipkart |-> SiteEntry("Flipkart",
      <<"title", "price", "rating", "reviews", "images", "seller", "delivery">>,
      <<"title", "price", "rating">>),
    dhgate |-> SiteEntry("DHgate",
      <<"title", "price", "moq", "supplier", "images", "shipping">>,
      <<"title", "price", "supplier">>),
    indiamart |-> SiteEntry("IndiaMART",
      <<"title", "price", "supplier", "location", "images", "contact">>,
      <<"title", "price", "supplier">>),
    ebay |-> SiteEntry("eBay",
      <<"title", "exact_price", "currency", "description", "supplier", "feedback", "origin",
        "image_url", "images", "dimensions", "discount_information", "brand_name",
        "min_order">>,
      <<"title", "exact_price", "supplier">>) ]

RegisteredSites == DOMAIN scraperConfig

\* a lookup that takes the site string as it is
AsWritten(str) == str

\* String.prototype.toLowerCase on the site strings the model passes
toLowerCase(str) ==
  CASE str = "Amazon" -> "amazon"
    [] str = "EBAY" -> "ebay"
    [] str = "DHgate" -> "dhgate"
    [] OTHER -> str

\* keys every object literal inherits from Object.prototype that are their
\* own lower-case form: scraperConfig[key] is a truthy value without fields
InheritedKeys == {"constructor", "__proto__"}

\* the site strings and field ids the calls are made with
SiteInputs ==
  RegisteredSites \cup {"Amazon", "EBAY", "DHgate", "walmart", "", "constructor", "__proto__"}
FieldInputs == {"title", "price", "exact_price", "moq", "asin", "bogus"}

RECURSIVE SeqsUpTo(_, _)
SeqsUpTo(S, n) ==
  IF n = 0 THEN {<<>>}
  ELSE LET shorter == SeqsUpTo(S, n - 1)
       IN  shorter \cup {Append(q, x) : q \in {p \in shorter : Len(p) = n - 1}, x \in S}

\* getScraperConfig(site): the config, or the throw
\*   kind "site": a registered entry; "inherited": a value found on the
\*   prototype chain; "throw": Error('Configuration not found for site: ...')
getScraperConfig(site) ==
  LET key == toLowerCase(site)
  IN  IF key \in RegisteredSites THEN [kind |-> "site", key |-> key]
      ELSE IF key \in InheritedKeys THEN [kind |-> "inherited", key |-> key]
      ELSE [kind |-> "throw", key |-> key]

Range(q) == {q[i] : i \in DOMAIN q}

\* validateFields(site, fields)
validateFieldsUnfiltered(site, fields) ==
  LET config == getScraperConfig(site)
  IN  IF config.kind # "site"
        THEN [error |-> "Configuration not found", isValid |-> FALSE,
              invalidFields |-> <<>>, validFields |-> <<>>]
      ELSE LET validFieldIds == Range(scraperConfig[config.key].fields)
               excludes(f) == f \notin validFieldIds
               invalidFields == SelectSeq(fields, excludes)
           IN  [error |-> "none", isValid |-> Len(invalidFields) = 0,
                invalidFields |-> invalidFields, validFields |-> fields]

validateFields(site, fields) ==
  LET config == getScraperConfig(site)
  IN  IF config.kind = "throw"
        THEN [error |-> "Configuration not found", isValid |-> FALSE,
              invalidFields |-> <<>>, validFields |-> <<>>]
      ELSE IF config.kind = "inherited"
        THEN [error |-> "TypeError", isValid |-> FALSE,
              invalidFields |-> <<>>, validFields |-> <<>>]
      ELSE LET validFieldIds == Range(scraperConfig[config.key].fields)
               includes(f) == f \in validFieldIds
               excludes(f) == ~includes(f)
               invalidFields == SelectSeq(fields, excludes)
           IN  [error |-> "none", isValid |-> Len(invalidFields) = 0,
                invalidFields |-> invalidFields,
                validFields |-> SelectSeq(fields, includes)]

\* config.name, config.fields, config.defaultFields of what getScraperConfig
\* returned: <<v>> for a value, <<>> for undefined. An inherited value is the
\* function Object (name 'Object') or Object.prototype (no name); neither has
\* fields or defaultFields.
Property(config, p) ==
  IF config.kind = "site" THEN <<scraperConfig[config.key][p]>>
  ELSE IF config.key = "constructor" /\ p = "name" THEN <<"Object">>
  ELSE <<>>

\* getAvailableFields(site), getDefaultFields(site): the property, or the throw
getAvailableFields(site) ==
  LET config == getScraperConfig(site)
  IN  [threw |-> config.kind = "throw", value |-> Property(config, "fields")]

\* a registry that hands out one site's defaults for every site
getDefaultFieldsOfAmazon(site) ==
  [threw |-> FALSE, value |-> <<scraperConfig.amazon.defaultFields>>]

getDefaultFields(site) ==
  LET config == getScraperConfig(site)
  IN  [threw |-> config.kind = "throw", value |-> Property(config, "defaultFields")]

\* getSiteFields: 200 with the three values, or 404 when a lookup threw
\* 'Configuration not found'
getSiteFields(site) ==
  LET config == getScraperConfig(site)
      fields == getAvailableFields(site)
      defaultFields == getDefaultFields(site)
  IN  IF config.kind = "throw" \/ fields.threw \/ defaultFields.threw
        THEN [NoSent EXCEPT !.code = 404]
      ELSE [code |-> 200, site |-> Property(config, "name"),
            fields |-> fields.value, defaultFields |-> defaultFields.value]

\* the Site Registry called on its own: any site string, any field list
FieldsInit ==
  /\ env = <<>>
  /\ load = Scope(<<>>, {}, 0, 0, 1, 0)
  /\ now = 1
  /\ jobs = <<>>
  /\ nextId = 1
  /\ results = {}
  /\ files = {}
  /\ task = [i \in JobIds |-> NoTask]
  /\ inflight = EmptyBag
  /\ resp = NoResp
  /\ vfSite \in SiteInputs
  /\ vfFields \in SeqsUpTo(FieldInputs, MaxLen)
  /\ vfOut = NoOut
  /\ sfOut = NoSent
  /\ dfOut = NoOut
  /\ rsIn = NoCall /\ rsPc = "done" /\ rsArgv = NoArgv /\ rsOut = NoOutcome
  /\ MultiIdle
  /\ ClientIdle

ValidateFieldsCall ==
  /\ vfOut = NoOut
  /\ vfOut' = validateFields(vfSite, vfFields)
  /\ UNCHANGED <<jobVars, vfSite, vfFields, sfOut, dfOut, rsVars, msVars, clVars>>

\* GET /sites/:site/fields with site = vfSite
GetSiteFieldsCall ==
  /\ sfOut = NoSent
  /\ sfOut' = getSiteFields(vfSite)
  /\ UNCHANGED <<jobVars, vfSite, vfFields, vfOut, dfOut, rsVars, msVars, clVars>>

\* validateFields(site, getDefaultFields(site)) with site = vfSite: a throw
\* of getDefaultFields is the call's; defaultFields undefined (an inherited
\* key) leaves validateFields to fail on config.fields
DefaultFieldsCall ==
  /\ dfOut = NoOut
  /\ LET defaults == getDefaultFields(vfSite)
     IN  dfOut' = IF defaults.threw
                    THEN [NoOut EXCEPT !.error = "Configuration not found"]
                  ELSE IF defaults.value = <<>> THEN validateFields(vfSite, <<>>)
                  ELSE validateFields(vfSite, defaults.value[1])
  /\ UNCHANGED <<jobVars, vfSite, vfFields, vfOut, sfOut, rsVars, msVars, clVars>>

FieldsNext == ValidateFieldsCall \/ GetSiteFieldsCall \/ DefaultFieldsCall

FieldsSpec == FieldsInit /\ [][FieldsNext]_vars
\* -------------------------------------------------------- Worker Bridge
\* A text is a sequence of units: an ordinary run of characters ("laptop",
\* "CAPTCHA detected"), or one of the characters the shell treats specially.
DQ == "\""
BT == "backtick"
BS == "\\"
SP == " "
SEMI == ";"
SUBST == "$(id)"
ShUnits == {"laptop", DQ, BT, BS, SP, SUBST}

\* lines 33-34, 88-89: a backslash is put before every double quote and
\* before every backtick of str
RECURSIVE Escape(_)
Escape(str) ==
  IF str = <<>> THEN <<>>
  ELSE IF Head(str) \in {DQ, BT} THEN <<BS, Head(str)>> \o Escape(Tail(str))
  ELSE <<Head(str)>> \o Escape(Tail(str))

\* line 35: python "${scriptPath}" "${safeKeyword}" ${pageCount} ${retries} "${safeFields}"
\* (the script path is a plain path and retries a plain number here)
Command(keyword, pageCount, fields) ==
  <<"python", SP, DQ, "scrapers/amazon.py", DQ, SP, DQ>> \o Escape(keyword)
    \o <<DQ, SP>> \o pageCount \o <<SP, "3", SP, DQ>> \o Escape(fields) \o <<DQ>>

\* execSync(command): /bin/sh -c splits the command into the arguments of the
\* worker. Outside double quotes a space ends an argument, ; ends the command
\* and starts another, $(...) and a backtick run a command, a backslash quotes
\* the next unit. Inside double quotes a backslash quotes a following double
\* quote, backtick, backslash or $; $(...) and a backtick still run a command
\* and a double quote closes the quotes.
\*   args: the arguments so far; cur: the units of the argument being read
\*   (<<>> inside has: an argument is being read); extra: a further command ran
RECURSIVE Sh(_, _, _, _, _, _)
Sh(cmd, inq, has, cur, args, extra) ==
  LET end == IF has THEN Append(args, cur) ELSE args
  IN  IF cmd = <<>> THEN [args |-> end, extra |-> extra, open |-> inq]
      ELSE LET c == Head(cmd)
               rest == Tail(cmd)
           IN  IF c = BS /\ rest # <<>> /\ (~inq \/ Head(rest) \in {DQ, BT, BS, SUBST})
                 THEN Sh(Tail(rest), inq, TRUE, Append(cur, Head(rest)), args, extra)
               ELSE IF c = DQ THEN Sh(rest, ~inq, TRUE, cur, args, extra)
               ELSE IF c \in {BT, SUBST} THEN Sh(rest, inq, has, cur, args, TRUE)
               ELSE IF ~inq /\ c = SP THEN Sh(rest, inq, FALSE, <<>>, end, extra)
               ELSE IF ~inq /\ c = SEMI THEN Sh(rest, inq, FALSE, <<>>, end, TRUE)
               ELSE Sh(rest, inq, TRUE, Append(cur, c), args, extra)

execArgv(command) == Sh(command, FALSE, FALSE, <<>>, <<>>, FALSE)

\* ---- the outcome of one invocation
\* Lines of the worker's standard error, and what the tests of lines 63-66
\* find in each: the marker 'CAPTCHA detected', /CAPTCHA_TYPE: (\w+)/ and
\* /CAPTCHA_URL: (.+?)(\n|$)/ (the url runs to the end of its line).
Marker == "CAPTCHA detected"
TypeImage == "CAPTCHA_TYPE: image"
TypeText == "CAPTCHA_TYPE: text"
UrlXY == "CAPTCHA_URL: https://x/y"
UrlXYMore == "CAPTCHA_URL: https://x/y (attempt 2)"
ErrLines == {Marker, TypeImage, TypeText, UrlXY, UrlXYMore, "Traceback"}

\* the text, as one line, of an error that execSync or JSON.parse made itself
Line(prefix, quoted) == <<prefix, quoted>>

HasMarker(line) ==
  IF line \in ErrLines THEN line = Marker ELSE Marker \in Range(line[2])

TypeIn(line) ==
  CASE line = TypeImage -> <<"image">>
    [] line = TypeText -> <<"text">>
    [] OTHER -> <<>>

UrlIn(line) ==
  CASE line = UrlXY -> <<"https://x/y">>
    [] line = UrlXYMore -> <<"https://x/y (attempt 2)">>
    [] OTHER -> <<>>

\* str.includes('CAPTCHA detected')
includes(text) == \E i \in DOMAIN text : HasMarker(text[i])

\* the captured group of the regular expression re in a line (<<>>: no match)
exec(re, line) == IF re = "CAPTCHA_TYPE" THEN TypeIn(line) ELSE UrlIn(line)

\* str.match(re): the group of the first match in the text, else the default
RECURSIVE match(_, _, _)
match(text, re, default) ==
  IF text = <<>> THEN default
  ELSE IF exec(re, Head(text)) # <<>> THEN exec(re, Head(text))[1]
  ELSE match(Tail(text), re, default)

Success == [kind |-> "Success", type |-> "", url |-> ""]
Failure == [kind |-> "Failure", type |-> "", url |-> ""]
CaptchaRequired(type, url) == [kind |-> "CaptchaRequired", type |-> type, url |-> url]

\* line 60: error.stderr || error.message. A worker that exits non-zero makes
\* execSync throw an error whose stderr is the worker's standard error and
\* whose message is 'Command failed: ' and the command; output that does not
\* parse makes line 56 throw 'Failed to parse scraper output: ' and the
\* message of JSON.parse, which quotes the output on runtimes that do so.
errorMessage(in) ==
  IF in.exit # 0
    THEN IF in.stderr # <<>> THEN in.stderr
         ELSE <<Line("Command failed: ", Command(in.keyword, in.pageCount, in.fields))>>
  ELSE <<Line("Failed to parse scraper output: ",
              IF in.quotes THEN <<in.stdout>> ELSE <<>>)>>

\* the catch block of validateCaptcha (lines 114-118) in place of lines 59-76:
\* every error is thrown on
runScraperRethrows(in) ==
  IF in.exit = 0 /\ in.stdout = "json" THEN Success ELSE Failure

\* lines 39-76: what runScraper returns (Success, CaptchaRequired) or throws
\* (Failure) once the worker has exited
runScraper(in) ==
  IF in.exit = 0 /\ in.stdout = "json" THEN Success
  ELSE IF includes(errorMessage(in))
    THEN CaptchaRequired(match(errorMessage(in), "CAPTCHA_TYPE", "unknown"),
                         match(errorMessage(in), "CAPTCHA_URL", ""))
  ELSE Failure

\* the calls runScraper is checked with: any keyword and a page count that is
\* or is not a number, with a well-behaved worker ...
CommandCalls ==
  { [NoCall EXCEPT !.keyword = k, !.pageCount = p, !.fields = <<"title">>,
                   !.exists = TRUE, !.stdout = "json"] :
      k \in SeqsUpTo(ShUnits, MaxLen), p \in {<<"1">>, <<"1", SEMI, "id">>} }

\* ... and any worker behaviour, with a plain keyword or the keyword
\* 'CAPTCHA detected'
OutcomeCalls ==
  { [keyword |-> k, pageCount |-> <<"1">>, fields |-> <<"title">>, exists |-> x,
     exit |-> e, stdout |-> o, stderr |-> err, quotes |-> q] :
      k \in {<<"laptop">>, <<Marker>>}, x \in BOOLEAN, e \in {0, 1},
      o \in {"json", "Traceback", Marker}, err \in SeqsUpTo(ErrLines, MaxLen),
      q \in BOOLEAN }

BridgeInit ==
  /\ env = <<>>
  /\ load = Scope(<<>>, {}, 0, 0, 1, 0)
  /\ now = 1
  /\ jobs = <<>>
  /\ nextId = 1
  /\ results = {}
  /\ files = {}
  /\ task = [i \in JobIds |-> NoTask]
  /\ inflight = EmptyBag
  /\ resp = NoResp
  /\ vfSite = "amazon"
  /\ vfFields = <<>>
  /\ vfOut = NoOut
  /\ sfOut = NoSent
  /\ dfOut = NoOut
  /\ rsIn \in CommandCalls \cup OutcomeCalls
  /\ rsPc = "call"
  /\ rsArgv = NoArgv
  /\ rsOut = NoOutcome
  /\ MultiIdle
  /\ ClientIdle

\* lines 25-40: the script is looked up, the command is built and execSync
\* hands it to the shell
RunScraperCall ==
  /\ rsPc = "call"
  /\ IF rsIn.exists
       THEN /\ rsPc' = "exec"
            /\ rsArgv' = execArgv(Command(rsIn.keyword, rsIn.pageCount, rsIn.fields))
            /\ rsOut' = rsOut
       ELSE /\ rsPc' = "done"
            /\ rsOut' = Failure
            /\ rsArgv' = rsArgv
  /\ UNCHANGED <<jobVars, vfSite, vfFields, vfOut, sfOut, dfOut, rsIn, msVars, clVars>>

\* the worker process exits; execSync (lines 40-44, no timeout option) waits
\* for this and for nothing else
WorkerExit ==
  /\ rsPc = "exec"
  /\ rsPc' = "exited"
  /\ UNCHANGED <<jobVars, vfSite, vfFields, vfOut, sfOut, dfOut, rsIn, rsArgv, rsOut, msVars, clVars>>

\* lines 46-76: execSync has returned or thrown
RunScraperReturn ==
  /\ rsPc = "exited"
  /\ rsPc' = "done"
  /\ rsOut' = runScraper(rsIn)
  /\ UNCHANGED <<jobVars, vfSite, vfFields, vfOut, sfOut, dfOut, rsIn, rsArgv, msVars, clVars>>

BridgeNext == RunScraperCall \/ WorkerExit \/ RunScraperReturn

BridgeSpec == BridgeInit /\ [][BridgeNext]_vars

\* runScraper takes every step of its own; when the worker exits is up to
\* the worker
BridgeFairSpec == BridgeSpec /\ WF_vars(RunScraperCall) /\ WF_vars(RunScraperReturn)
\* ---------------------------------------------------- Multi-site scrape
\* runScrapers (POST /api/scrape-multi). req.body: keyword, sites (an array),
\* pageCount and fields as strings; allowed is ALLOWED_SITES (<<>> unset, <<S>>
\* set to the comma-separated strings S); worker[i] is what the i-th call of
\* runScraper meets: "Missing" (no script: throws before execSync), "Failure"
\* (throws after execSync), "Success" (returns the parsed output),
\* "CaptchaRequired" (returns the captcha object). exported tells whether
\* require('../utils/ScraperUtils') yields runScraper: ScraperUtils.js assigns
\* module.exports with it (line 121) and once more without it (line 290), so
\* as the file stands it does not; TRUE is the first assignment left in force.
WorkerKinds == {"Missing", "Failure", "Success", "CaptchaRequired"}
MaxSites == 2

MultiCalls ==
  { [keyword |-> k, sites |-> ss, pageCount |-> p, fields |-> f, allowed |-> a,
     worker |-> w, exported |-> x] :
      x \in BOOLEAN, k \in {"", "laptop"}, ss \in SeqsUpTo({"amazon", "EBAY", "walmart"}, MaxSites),
      p \in {"1", "0", "abc"}, f \in {"", "title"},
      a \in {<<>>, <<{" amazon ", "ebay"}>>}, w \in [1..MaxSites -> WorkerKinds] }

\* lines 35-37: ALLOWED_SITES split, trimmed and lower-cased; [] when unset
MultiAllowed(allowed) ==
  IF allowed = <<>> THEN {} ELSE {toLowerCase(Trim(x)) : x \in allowed[1]}

\* line 40: sites.filter((site) => !ALLOWED_SITES.includes(site.toLowerCase()))
invalidSites(sites, allowed) ==
  LET invalid(site) == toLowerCase(site) \notin MultiAllowed(allowed)
  IN  SelectSeq(sites, invalid)

\* parseInt(str, 10) on the strings the model passes: <<n>>, or <<>> for NaN
parseInt(str) ==
  CASE str = "1" -> <<1>>
    [] str = "0" -> <<0>>
    [] OTHER -> <<>>

\* lines 26-63: the request fails one of the three validations (retries is
\* left at its default '3')
MultiInvalid(req) ==
  \/ req.keyword = "" \/ Len(req.sites) = 0 \/ req.fields = ""
  \/ Len(invalidSites(req.sites, req.allowed)) > 0
  \/ parseInt(req.pageCount) = <<>> \/ parseInt(req.pageCount)[1] < 1

\* lines 68-70: the callback of sites.map evaluates runScraper(...).then(...).
\* runScraper is a synchronous function: its throw leaves the callback, and
\* what it returns (the parsed output or the captcha object) is no promise,
\* so the call of .then on it throws a TypeError. The error the callback
\* throws, for each thing the worker does ("Undefined": runScraper itself
\* is undefined and the call of it throws):
CallbackThrows(kind) ==
  CASE kind = "Undefined" -> "runScraper is not a function"
    [] kind = "Missing" -> "Scraper script not found"
    [] kind = "Failure" -> "Python script failed"
    [] OTHER -> "then is not a function"

\* lines 111-121: the outer catch answers 500 with err.message
MultiFailed(error, ran) == [code |-> 500, error |-> error, ran |-> ran]

MultiInit ==
  /\ env = <<>>
  /\ load = Scope(<<>>, {}, 0, 0, 1, 0)
  /\ now = 1
  /\ jobs = <<>>
  /\ nextId = 1
  /\ results = {}
  /\ files = {}
  /\ task = [i \in JobIds |-> NoTask]
  /\ inflight = EmptyBag
  /\ resp = NoResp
  /\ vfSite = "amazon"
  /\ vfFields = <<>>
  /\ vfOut = NoOut
  /\ sfOut = NoSent
  /\ dfOut = NoOut
  /\ rsIn = NoCall /\ rsPc = "done" /\ rsArgv = NoArgv /\ rsOut = NoOutcome
  /\ msReq \in MultiCalls
  /\ msPc = "call"
  /\ msOut = NoMultiOut
  /\ ClientIdle

\* lines 22-70: the validations answer 400; otherwise sites.map calls its
\* callback for the first site, which throws at once when runScraper is
\* undefined or the script is missing and is inside execSync otherwise
RunScrapers ==
  /\ msPc = "call"
  /\ IF MultiInvalid(msReq)
       THEN /\ msPc' = "done"
            /\ msOut' = [NoMultiOut EXCEPT !.code = 400]
       ELSE IF ~msReq.exported
       THEN /\ msPc' = "done"
            /\ msOut' = MultiFailed(CallbackThrows("Undefined"), 0)
       ELSE IF msReq.worker[1] = "Missing"
       THEN /\ msPc' = "done"
            /\ msOut' = MultiFailed(CallbackThrows("Missing"), 0)
       ELSE /\ msPc' = "exec"
            /\ msOut' = msOut
  /\ UNCHANGED <<jobVars, vfSite, vfFields, vfOut, sfOut, dfOut, rsVars, msReq, clVars>>

\* the first site's worker exits: runScraper returns or throws, the callback
\* throws either way, sites.map is left before the second site's callback
\* runs, and the outer catch answers
RunScrapersExit ==
  /\ msPc = "exec"
  /\ msPc' = "done"
  /\ msOut' = MultiFailed(CallbackThrows(msReq.worker[1]), 1)
  /\ UNCHANGED <<jobVars, vfSite, vfFields, vfOut, sfOut, dfOut, rsVars, msReq, clVars>>

MultiNext == RunScrapers \/ RunScrapersExit

MultiSpec == MultiInit /\ [][MultiNext]_vars
\* ---------------------------------------------------------- HTTP client
\* services/api.js: the axios instance api with its two interceptors. The
\* server is outside: it answers a request with any status and a refresh call
\* with a new access token or an error.
Statuses == {200, 401, 500}
AccessTokens == {"t1", "t2"}

\* lines 17-21: the request interceptor puts the stored access token, when
\* there is one, into config.headers.Authorization
WithToken(call, store) ==
  [call EXCEPT !.auth = IF store.accessToken # "none" THEN store.accessToken ELSE @]

\* an interceptor that refreshes on every 401
RefreshOnEvery401(status, retry) == status = 401

\* line 33: if (error.response?.status === 401 && !originalRequest._retry)
ShouldRefresh(status, retry) == status = 401 /\ ~retry

ClientInit ==
  /\ env = <<>>
  /\ load = Scope(<<>>, {}, 0, 0, 1, 0)
  /\ now = 1
  /\ jobs = <<>>
  /\ nextId = 1
  /\ results = {}
  /\ files = {}
  /\ task = [i \in JobIds |-> NoTask]
  /\ inflight = EmptyBag
  /\ resp = NoResp
  /\ vfSite = "amazon"
  /\ vfFields = <<>>
  /\ vfOut = NoOut
  /\ sfOut = NoSent
  /\ dfOut = NoOut
  /\ rsIn = NoCall /\ rsPc = "done" /\ rsArgv = NoArgv /\ rsOut = NoOutcome
  /\ MultiIdle
  /\ localStorage \in [accessToken : {"none", "t0"}, refreshToken : {"none", "r0"}]
  /\ apiCalls = [i \in Calls |-> NoApiCall]
  /\ location = "/"

\* api(config): the request interceptor runs and the request is sent
ApiCall(i) ==
  /\ apiCalls[i].pc = "idle"
  /\ apiCalls' = [apiCalls EXCEPT ![i] = [WithToken(@, localStorage)
                                            EXCEPT !.pc = "sent", !.sends = 1]]
  /\ UNCHANGED <<jobVars, vfSite, vfFields, vfOut, sfOut, dfOut, rsVars, msVars, localStorage, location>>

\* lines 30-36 and 58: the response arrives. A 2xx resolves the call; an error
\* with status 401 on a config without _retry sets _retry and sends the
\* refresh call (plain axios: no interceptor of api runs on it); any other
\* error is rejected
ApiResponse(i, status) ==
  /\ apiCalls[i].pc = "sent"
  /\ apiCalls' = [apiCalls EXCEPT ![i] =
       IF status = 200 THEN [@ EXCEPT !.pc = "resolved"]
       ELSE IF ShouldRefresh(status, @.retry)
         THEN [@ EXCEPT !.pc = "refreshing", !.retry = TRUE, !.refreshes = @ + 1]
       ELSE [@ EXCEPT !.pc = "rejected", !.error = IF status = 401 THEN "401" ELSE "500"]]
  /\ UNCHANGED <<jobVars, vfSite, vfFields, vfOut, sfOut, dfOut, rsVars, msVars, localStorage, location>>

\* lines 38-46: the refresh call is fulfilled: the new access token is stored
\* and set on the request, and api(originalRequest) sends it again (the
\* request interceptor runs again; the config keeps _retry)
RefreshFulfilled(i, token) ==
  /\ apiCalls[i].pc = "refreshing"
  /\ apiCalls[i].sends < MaxSends
  /\ localStorage' = [localStorage EXCEPT !.accessToken = token]
  /\ apiCalls' = [apiCalls EXCEPT ![i] = [WithToken([@ EXCEPT !.auth = token], localStorage')
                                            EXCEPT !.pc = "sent", !.sends = @ + 1]]
  /\ UNCHANGED <<jobVars, vfSite, vfFields, vfOut, sfOut, dfOut, rsVars, msVars, location>>

\* lines 47-54: the refresh call is rejected (or its answer has no
\* data.data.accessToken): both tokens are removed, the page is sent to
\* /login and the call is rejected with the refresh error
RefreshRejected(i) ==
  /\ apiCalls[i].pc = "refreshing"
  /\ localStorage' = NoTokens
  /\ location' = "/login"
  /\ apiCalls' = [apiCalls EXCEPT ![i] = [@ EXCEPT !.pc = "rejected", !.error = "refresh"]]
  /\ UNCHANGED <<jobVars, vfSite, vfFields, vfOut, sfOut, dfOut, rsVars, msVars>>

ClientNext ==
  \/ \E i \in Calls : ApiCall(i)
  \/ \E i \in Calls, status \in Statuses : ApiResponse(i, status)
  \/ \E i \in Calls, token \in AccessTokens : RefreshFulfilled(i, token)
  \/ \E i \in Calls : RefreshRejected(i)

ClientSpec == ClientInit /\ [][ClientNext]_vars

\* the server answers every request and every refresh call
ClientFairSpec ==
  /\ ClientSpec
  /\ \A i \in Calls :
       /\ WF_vars(\E status \in Statuses : ApiResponse(i, status))
       /\ WF_vars((\E token \in AccessTokens : RefreshFulfilled(i, token)) \/ RefreshRejected(i))
\* ================================================================ claims
JobOps == {"getJobById", "getJobResults", "cancelJob", "deleteJob"}

\* the step resumes (and ends) the suspended request r
Ends(r) == inflight' = Resume(r)

\* the step suspends a new request of handler op by u on job id
Suspends(op, u, id) ==
  \E r \in BagToSet(inflight') :
    r.op = op /\ r.user = u /\ r.id = id /\ inflight' = Suspend(r)

\* C1: the persisted status of a job only moves pending -> running ->
\* {completed, failed, cancelled}: never from pending straight to a terminal
\* state, and never out of a terminal state.
C1_StatusFollowsLifecycle ==
  [][\A id \in DOMAIN jobs \cap DOMAIN jobs' :
       LET a == jobs[id].status
           b == jobs'[id].status
       IN  a # b => \/ a = "pending" /\ b = "running"
                    \/ a = "running" /\ b \in Terminal]_vars

\* C2: in every reachable state no user has more jobs in {pending, running}
\* than the ceiling.
C2_QuotaNeverExceeded ==
  \A u \in Users : CountActive(jobs, u) <= MaxConcurrent(env)

\* C3: a createJob whose count of the user's pending and running jobs is at or
\* above the ceiling answers 429, stores no job and starts no execution.
C3_AtCeilingAnswers429 ==
  [][\A r \in InFlight :
       (r.op = "createJob" /\ r.n >= MaxConcurrent(env) /\ Ends(r))
         => /\ resp' = Sent("createJob", r.user, 0, 429, NoDoc)
            /\ jobs' = jobs /\ nextId' = nextId /\ task' = task]_vars

C3_Witness ==
  /\ resp.op = "createJob" /\ resp.code = 429
  /\ CountActive(jobs, resp.user) >= MaxConcurrent(env)

\* C4: after a 201 the created job is stored in state pending, and the job
\* the response carries is that job in state pending.
C4_ReturnsPendingJob ==
  (resp.op = "createJob" /\ resp.code = 201)
    => /\ resp.id \in DOMAIN jobs
       /\ jobs[resp.id].status = "pending"
       /\ resp.doc.status = "pending"

\* C5: every created job that is neither cancelled nor deleted eventually
\* has status completed or failed.
C5_EventuallyFinished ==
  \A id \in JobIds :
    (id \in DOMAIN jobs)
      ~> (id \notin DOMAIN jobs \/ jobs[id].status \in {"completed", "failed", "cancelled"})

\* C6: cancelJob by the owner of a completed or failed job answers 400 and
\* changes nothing (it is not even suspended to save); on a pending or running
\* job it is not refused but goes on to save status cancelled with the
\* completion time, and when that request answers 200 the stored job has
\* status cancelled and a completion time.
C6_CancelByState ==
  [][/\ \A u \in Users, id \in DOMAIN jobs :
          LET job == FindOne(jobs, id, u)
              answered == resp'.op = "cancelJob" /\ resp'.user = u /\ resp'.id = id
                            /\ inflight' = inflight
          IN  /\ (job # NoDoc /\ job.status \in {"completed", "failed"})
                   => /\ ~Suspends("cancelJob", u, id)
                      /\ answered => (resp'.code = 400 /\ jobs' = jobs /\ results' = results)
              /\ (job # NoDoc /\ job.status \in {"pending", "running"})
                   => /\ ~answered
                      /\ \A r \in BagToSet(inflight') :
                           (r.op = "cancelJob" /\ r.user = u /\ r.id = id /\ inflight' = Suspend(r))
                             => /\ r.doc.status = "cancelled" /\ "status" \in r.mod
                                /\ r.doc.completedAt = now /\ now > 0
     /\ \A r \in InFlight :
          (r.op = "cancelJob" /\ "status" \in r.mod /\ Ends(r) /\ resp'.code = 200)
            => /\ r.id \in DOMAIN jobs'
               /\ jobs'[r.id].status = "cancelled"
               /\ jobs'[r.id].completedAt > 0
               /\ resp'.doc.status = "cancelled"
     /\ Uncancellable("completed") /\ Uncancellable("failed")]_vars

C6_Witness ==
  /\ resp.op = "cancelJob" /\ resp.code = 400
  /\ resp.id \in DOMAIN jobs
  /\ jobs[resp.id].status = "failed" /\ jobs[resp.id].user = resp.user

\* C7: a cancelJob that settles on a job already stored as cancelled does
\* not answer success and leaves the stored job as it is.
C7_CancelledStaysAsCancelled ==
  [][\A r \in InFlight :
       (r.op = "cancelJob" /\ Ends(r) /\ r.id \in DOMAIN jobs /\ jobs[r.id].status = "cancelled")
         => (resp'.code # 200 /\ jobs' = jobs)]_vars

\* C8: a request of getJobById, getJobResults, cancelJob or deleteJob by a
\* user who does not own the job is answered as for an id that does not exist
\* (404), changes neither store and never gets past its lookup.
C8_ForeignJobIsNotFound ==
  [][\A u \in Users, id \in DOMAIN jobs :
       jobs[id].user # u
         => /\ (resp'.op \in JobOps /\ resp'.user = u /\ resp'.id = id)
                 => /\ resp' = Sent(resp'.op, u, id, 404, NoDoc)
                    /\ jobs' = jobs /\ results' = results /\ task' = task
            /\ \A r \in BagToSet(inflight') : ~(r.op \in JobOps /\ r.user = u /\ r.id = id)]_vars

C8_Witness ==
  /\ resp.op \in JobOps /\ resp.code = 404
  /\ resp.id \in DOMAIN jobs
  /\ jobs[resp.id].user # resp.user
  /\ ResultsOf(resp.id) # {}

Count(q, x) == Cardinality({i \in DOMAIN q : q[i] = x})

\* C10: for a registered site (in any letter case) validateFields returns;
\* every requested id is in exactly one of validFields and invalidFields, as
\* often as it was requested; the two hold nothing else; every valid id is a
\* field of the site; isValid is true exactly when invalidFields is empty.
C10_ValidateFieldsPartitions ==
  (vfOut # NoOut /\ toLowerCase(vfSite) \in RegisteredSites)
    => LET valid == vfOut.validFields
           invalid == vfOut.invalidFields
           siteFields == Range(scraperConfig[toLowerCase(vfSite)].fields)
       IN  /\ vfOut.error = "none"
           /\ Range(valid) \cup Range(invalid) = Range(vfFields)
           /\ Range(valid) \cap Range(invalid) = {}
           /\ \A x \in Range(vfFields) : Count(valid, x) + Count(invalid, x) = Count(vfFields, x)
           /\ Range(valid) \subseteq siteFields
           /\ Range(invalid) \cap siteFields = {}
           /\ vfOut.isValid <=> (invalid = <<>>)

C10_Witness ==
  /\ vfOut.error = "none"
  /\ Len(vfOut.validFields) = 2 /\ Len(vfOut.invalidFields) = 1
  /\ Cardinality(Range(vfFields)) = 2

\* C11: for every site string that is not (case-insensitively) the id of a
\* registered site, 'constructor' and '__proto__' included, getScraperConfig
\* fails with not-found and GET /sites/{site}/fields answers 404.
C11_UnregisteredSiteIsNotFound ==
  (sfOut # NoSent /\ toLowerCase(vfSite) \notin RegisteredSites)
    => /\ getScraperConfig(vfSite).kind = "throw"
       /\ getAvailableFields(vfSite).threw
       /\ sfOut.code = 404

\* the first of the lines of text that belong to S is line
FirstOf(text, S, line) ==
  \E i \in DOMAIN text :
    text[i] = line /\ \A j \in 1..(i - 1) : text[j] \notin S

C13_OutcomeByExitAndParse ==
  (rsPc = "done" /\ rsIn.exists)
    => /\ rsOut.kind = "Success" => (rsIn.exit = 0 /\ rsIn.stdout = "json")
       /\ (rsIn.exit # 0 /\ Marker \notin Range(rsIn.stderr)) => rsOut.kind = "Failure"
       /\ (rsIn.exit = 0 /\ rsIn.stdout # "json") => rsOut.kind = "Failure"

\* C14: the shell hands the worker the script path, the keyword, the page
\* count, the retries and the fields as exactly one argument each, equal to
\* the value passed to runScraper, and runs no further command.
C14_EachValueOneArgument ==
  (rsPc # "call" /\ rsIn.exists)
    => rsArgv = [args |-> <<<<"python">>, <<"scrapers/amazon.py">>, rsIn.keyword,
                            rsIn.pageCount, <<"3">>, rsIn.fields>>,
                 extra |-> FALSE, open |-> FALSE]

\* C15: every invocation of the worker terminates: once execSync has started
\* the worker, runScraper eventually returns or throws.
C15_InvocationTerminates ==
  (rsPc = "exec") ~> (rsPc = "done")

\* C16: every stored job's selectedFields is a non-empty list of field ids
\* of its site's field set: a createJob naming a field id outside that set
\* stores no job.
C16_StoredFieldsBelongToSite ==
  \A id \in DOMAIN jobs :
    /\ jobs[id].selectedFields # <<>>
    /\ jobs[id].site \in RegisteredSites
    /\ Range(jobs[id].selectedFields) \subseteq Range(scraperConfig[jobs[id].site].fields)

\* a deleteJob has deleted the results of job id and not yet the job
BeingDeleted(id) ==
  \E r \in InFlight : r.op = "deleteJob" /\ r.id = id /\ r.pc \in {"unlink", "deleteOne"}

\* the item indices of the stored results of job id are 0..n-1, each once
IndicesAre(id, n) ==
  /\ {x.itemIndex : x \in ResultsOf(id)} = 0..(n - 1)
  /\ Cardinality(ResultsOf(id)) = n

Listed(u, q) ==
  {i \in DOMAIN jobs : /\ jobs[i].user = u
                        /\ (q.status # "" => jobs[i].status = q.status)
                        /\ (q.site # "" => jobs[i].site = q.site)}

Newer(M, x) == {m \in M : jobs[m].createdAt > jobs[x].createdAt}
NotOlder(M, x) == {m \in M : jobs[m].createdAt >= jobs[x].createdAt}

\* data holds the elements (page-1)*limit .. page*limit-1 of a
\* creation-time-descending ordering of M
IsPageOf(data, M, q) ==
  LET skip == (q.page - 1) * q.limit
      rest == IF Cardinality(M) > skip THEN Cardinality(M) - skip ELSE 0
  IN  /\ Len(data) = IF rest < q.limit THEN rest ELSE q.limit
      /\ \A k \in DOMAIN data :
           /\ data[k] \in M
           /\ \A l \in DOMAIN data : l # k => data[l] # data[k]
           /\ Cardinality(Newer(M, data[k])) <= skip + k - 1
           /\ Cardinality(NotOlder(M, data[k])) >= skip + k

\* what one getJobs returns: the find settles with a page of the jobs listed
\* then, the answer carries that page, the number listed at the count and
\* pages = ceil(total / limit)
GetJobsAnswers ==
  /\ \A r \in BagToSet(inflight') :
       (r.op = "getJobs" /\ inflight' = Suspend(r))
         => IsPageOf(r.data, Listed(r.user, r.query), r.query)
  /\ \A r \in InFlight :
       (r.op = "getJobs" /\ Ends(r))
         => /\ resp'.code = 200 /\ resp'.data = r.data
            /\ resp'.total = Cardinality(Listed(r.user, r.query))
            /\ resp'.pages * r.query.limit >= resp'.total
            /\ resp'.pages > 0 => (resp'.pages - 1) * r.query.limit < resp'.total

\* on the jobs stored now, whatever pages 1..pages of the list of u under
\* the filters and limit of q the store returns to a getJobs, every listed job is on
\* exactly one of them, once
PagesPartition(u, q) ==
  LET M == Listed(u, q)
      P == 1..Ceil(Cardinality(M), q.limit)
      S(p) == FindJobs(jobs, u, [q EXCEPT !.page = p])
  IN  \A f \in {g \in [P -> UNION {S(p) : p \in P}] : \A p \in P : g[p] \in S(p)} :
        \A m \in M :
          Cardinality({pk \in P \X (1..q.limit) :
                         pk[2] <= Len(f[pk[1]]) /\ f[pk[1]][pk[2]] = m}) = 1

DistinctTimes(M) ==
  \A i, j \in M : i # j => jobs[i].createdAt # jobs[j].createdAt

\* C18 as stated: for a fixed set of stored jobs, getJobs with page >= 1 and
\* limit >= 1 returns only jobs of the caller that match the filters, in
\* creation-time-descending order, namely the elements (page-1)*limit ..
\* page*limit-1 of that ordering, with total the number of matching jobs and
\* pages = ceil(total/limit); pages 1..pages concatenate to all matching jobs
\* without duplicates or omissions.
C18_ListIsPaginated ==
  /\ [][GetJobsAnswers]_vars
  /\ [](\A u \in load.users, q \in load.queries : PagesPartition(u, q))

\* C18 (amended): the same, the last part only when the matching jobs have
\* pairwise distinct creation times: then pages 1..pages concatenate to all
\* matching jobs without duplicates or omissions.
C18_ListIsPaginatedDistinctTimes ==
  /\ [][GetJobsAnswers]_vars
  /\ [](\A u \in load.users, q \in load.queries :
          DistinctTimes(Listed(u, q)) => PagesPartition(u, q))

C18_Witness ==
  /\ resp.op = "getJobs" /\ resp.code = 200
  /\ resp.total = 2 /\ resp.pages = 2 /\ Len(resp.data) = 1
  /\ DistinctTimes(DOMAIN jobs)
  /\ \A i \in DOMAIN jobs : jobs[resp.data[1]].createdAt <= jobs[i].createdAt

\* C19: in every reachable state a stored job carries error detail only if
\* its stored status is failed, also when a cancelJob interleaves with a
\* failing background execution.
C19_ErrorOnlyWhenFailed ==
  \A id \in DOMAIN jobs : jobs[id].error => jobs[id].status = "failed"

\* C20: a failure of the background execution after the job was created is
\* recorded on the job as failed with the error and a completion time, and it
\* never reaches the caller of createJob: the creation is answered 201 and the
\* failure does not end as an unhandled error.
C20_FailureIsRecordedNotSurfaced ==
  [][\A id \in JobIds :
       /\ (task[id].pc = "none" /\ task'[id].pc # "none")
            => (resp'.op = "createJob" /\ resp'.code = 201 /\ resp'.id = id)
       /\ (task[id].pc = "save_failed" /\ task'[id].pc # "save_failed")
            => /\ task'[id].pc = "done"
               /\ id \in DOMAIN jobs'
               /\ jobs'[id].status = "failed" /\ jobs'[id].error
               /\ jobs'[id].completedAt > 0]_vars

CaseVariants ==
  {<<"Amazon", "amazon">>, <<"EBAY", "ebay">>, <<"DHgate", "dhgate">>}
    \cup {<<id, id>> : id \in RegisteredSites}

\* C22: site ids are compared without regard to letter case: for a registered
\* id written in any letter case, getScraperConfig, getAvailableFields and
\* getDefaultFields return what they return for the lower-case id (the
\* registered entry, never a throw), and so does a call of validateFields
\* with any field list.
C22_SiteIdsIgnoreCase ==
  \A v \in CaseVariants :
    /\ v[1] \in SiteInputs /\ v[2] \in RegisteredSites
    /\ getScraperConfig(v[1]) = [kind |-> "site", key |-> v[2]]
    /\ getScraperConfig(v[1]) = getScraperConfig(v[2])
    /\ getAvailableFields(v[1]) = getAvailableFields(v[2])
    /\ getAvailableFields(v[1]) = [threw |-> FALSE, value |-> <<scraperConfig[v[2]].fields>>]
    /\ getDefaultFields(v[1]) = getDefaultFields(v[2])
    /\ getDefaultFields(v[1]) = [threw |-> FALSE, value |-> <<scraperConfig[v[2]].defaultFields>>]
    /\ (vfSite = v[1] /\ vfOut # NoOut)
         => /\ vfOut = validateFields(v[2], vfFields)
            /\ vfOut.error = "none"

\* validateFields returned for a site written in upper case, with a valid and
\* an invalid field
C22_Witness ==
  /\ vfSite = "EBAY"
  /\ vfOut # NoOut
  /\ vfOut.validFields # <<>> /\ vfOut.invalidFields # <<>>

\* C23: every stored job's site is in the Site Registry: what the validation
\* of job creation accepts as site, under the configured ALLOWED_SITES or the
\* built-in list, is a site getScraperConfig succeeds for.
C23_StoredSiteIsRegistered ==
  \A id \in DOMAIN jobs :
    /\ jobs[id].site \in AllowedSites
    /\ getScraperConfig(jobs[id].site).kind = "site"

\* C24: once cancelJob has answered success for a job, the stored status of
\* that job is cancelled in that state and in every later state in which the
\* job is stored, whatever the background task writes from its own copy.
\* (Only cancelJob's save stores the status cancelled, and it answers success
\* in the same step: a stored status cancelled is a cancelJob answered
\* success and kept since.)
C24_CancelledForGood ==
  [][/\ (resp'.op = "cancelJob" /\ resp'.code = 200)
          => (resp'.id \in DOMAIN jobs' /\ jobs'[resp'.id].status = "cancelled")
     /\ \A id \in DOMAIN jobs \cap DOMAIN jobs' :
          jobs[id].status = "cancelled" => jobs'[id].status = "cancelled"]_vars

\* the jobs of user u that are stored and not in a terminal state
OwnActive(u) ==
  {i \in DOMAIN jobs : jobs[i].user = u /\ jobs[i].status \notin Terminal}

\* C25: the quota is per user. The number createJob counts for user u is the
\* number of u's own stored jobs that are pending or running (other users'
\* jobs, and u's cancelled, failed, completed or deleted jobs, are not in
\* it), and the request is accepted when that number is below the ceiling and
\* answered 429 otherwise.
C25_QuotaIsPerUser ==
  [][/\ \A r \in BagToSet(inflight') :
          (r.op = "createJob" /\ inflight' = Suspend(r))
            => r.n = Cardinality(OwnActive(r.user))
     /\ \A r \in InFlight :
          (r.op = "createJob" /\ Ends(r))
            => /\ r.n < MaxConcurrent(env) => (resp'.code = 201 /\ resp'.user = r.user)
               /\ r.n >= MaxConcurrent(env) => resp'.code = 429]_vars

\* user A's job is accepted at ceiling 1 while user B has an active job of
\* their own
C25_Witness ==
  /\ MaxConcurrent(env) = 1
  /\ resp.op = "createJob" /\ resp.code = 201 /\ resp.user = "A"
  /\ OwnActive("B") # {}

\* C26: in every reachable state, every stored job has a completion time
\* exactly when its status is completed, failed or cancelled, and a running
\* job has a start time.
C26_TimesMatchStatus ==
  \A id \in DOMAIN jobs :
    /\ jobs[id].completedAt > 0 <=> jobs[id].status \in Terminal
    /\ jobs[id].status = "running" => jobs[id].startedAt > 0

\* job id was created and is no longer stored
Removed(id) == id < nextId /\ id \notin DOMAIN jobs

\* C27: once a job is removed, no step stores a job under that id again, and
\* a step that saves the removed job late ends handled: the cancelJob that
\* read the job before the deletion answers, and the background task's save
\* does not end as an unhandled rejection.
C27_RemovedStaysRemoved ==
  [][\A id \in JobIds :
       Removed(id)
         => /\ id \notin DOMAIN jobs'
            /\ \A r \in InFlight :
                 (r.op = "cancelJob" /\ r.id = id /\ Ends(r)) => resp'.op = "cancelJob"
            /\ task[id].pc # "rejected" => task'[id].pc # "rejected"]_vars

\* the status runScrapers is to report for a site whose worker does kind
EntryStatus(kind) ==
  CASE kind = "Success" -> "success"
    [] kind = "CaptchaRequired" -> "captcha_required"
    [] OTHER -> "error"

\* C28: a multi-site request that passes validation and in which a site's
\* worker fails is answered, not with 500, but with one entry per requested
\* site: the failing site's with status error, every other site's with its
\* own status, which takes every site's worker to have run.
C28_OneFailureOthersSurvive ==
  (/\ msPc = "done"
   /\ ~MultiInvalid(msReq)
   /\ \E i \in DOMAIN msReq.sites : EntryStatus(msReq.worker[i]) = "error")
    => /\ msOut.code = 200
       /\ msOut.ran = Len(msReq.sites)

\* C29: the HTTP client's handling of 401. A call is sent at most twice and
\* refreshes the token at most once; a 401 that answers the retry rejects
\* the call and starts no refresh; a failed refresh removes both stored
\* tokens and rejects the call; and every call that was sent ends, resolved
\* or rejected.
C29_RetryOnceThenReject ==
  /\ [](\A i \in Calls : apiCalls[i].sends <= 2 /\ apiCalls[i].refreshes <= 1)
  /\ [][\A i \in Calls :
          /\ (apiCalls[i].pc = "sent" /\ apiCalls[i].sends = 2
              /\ apiCalls'[i].pc \notin {"sent", "resolved"})
               => (apiCalls'[i].pc = "rejected" /\ localStorage' = localStorage)
          /\ (apiCalls[i].pc = "refreshing" /\ apiCalls'[i].pc # "refreshing")
               => \/ apiCalls'[i].pc = "sent" /\ apiCalls'[i].sends = 2
                  \/ /\ apiCalls'[i].pc = "rejected"
                     /\ localStorage' = NoTokens]_vars
  /\ \A i \in Calls :
       (apiCalls[i].pc # "idle") ~> (apiCalls[i].pc \in {"resolved", "rejected"})

\* a call answered 401 on its retry and rejected with it, tokens still stored
C29_Witness ==
  \E i \in Calls :
    /\ apiCalls[i].pc = "rejected" /\ apiCalls[i].error = "401"
    /\ apiCalls[i].sends = 2 /\ apiCalls[i].refreshes = 1
    /\ localStorage.accessToken \in AccessTokens

\* C30: for every site of the registry the field ids are unique and every
\* default field is a field id of the site, so validateFields called for the
\* site (in any letter case) with the site's default fields returns isValid
\* true, no invalid field, and the default fields as the valid ones.
C30_DefaultsAreValid ==
  \A v \in CaseVariants :
    LET entry == scraperConfig[v[2]]
    IN  /\ \A i, j \in DOMAIN entry.fields : entry.fields[i] = entry.fields[j] => i = j
        /\ Range(entry.defaultFields) \subseteq Range(entry.fields)
        /\ (vfSite = v[1] /\ dfOut # NoOut)
             => /\ dfOut.error = "none"
                /\ dfOut.isValid
                /\ dfOut.invalidFields = <<>>
                /\ dfOut.validFields = entry.defaultFields

\* the default fields of ebay went through validateFields
C30_Witness ==
  /\ vfSite = "ebay"
  /\ dfOut # NoOut
  /\ dfOut.isValid
  /\ dfOut.validFields = <<"title", "exact_price", "supplier">>
====
